---- MODULE Spec2Model ----
(***************************************************************************)
(* The two ns-3 scenario scripts of the repository,                        *)
(*   scratch/edgecloud_Stream2.cc   and   scratch/wifi_p2p.cc,             *)
(* as one state machine.  prog selects the script; the command-line        *)
(* parameters are drawn in Init.  The state is the simulation's object     *)
(* graph as the scripts build it: the node list, the devices and IPv4      *)
(* interfaces of every node, the address helper, the mobility helper, the  *)
(* installed applications and the simulator's event list.                  *)
(***************************************************************************)
EXTENDS Integers, Sequences, FiniteSets, TLC

VARIABLES prog, pc,
          nWifis, nStas, p2pNode,
          backboneNodes, infraNodes, lanNodes,
          nodeList, ipAddrs, mobility,
          i, j, k, m,
          appSource, sourceAddr, appSink,
          apps, pcap,
          stopAt, now, events, uid, exitCode

vars == <<prog, pc, nWifis, nStas, p2pNode, backboneNodes, infraNodes, lanNodes,
          nodeList, ipAddrs, mobility, i, j, k, m, appSource, sourceAddr,
          appSink, apps, pcap, stopAt, now, events, uid, exitCode>>

cfgVars == <<prog, nWifis, nStas, p2pNode, backboneNodes, infraNodes, lanNodes>>
simVars == <<now, events, uid, exitCode>>

----------------------------------------------------------------------------
(* Bounds of the model: the largest command-line values that are explored. *)

MaxWifis == 11
MaxStas == 4
MaxBackbone == 4
MaxInfra == 3
MaxLan == 4
\* Largest counts for which the simulator run itself is explored.
MaxRunWifis == 2
MaxRunStas == 1

(* Defaults of the scripts. *)
DefaultWifis == 6
DefaultStas == 4
DefaultP2pNode == 1
DefaultBackboneNodes == 3
DefaultInfraNodes == 2
DefaultLanNodes == 1

----------------------------------------------------------------------------
(* uint32_t arithmetic.  A 32-bit word is kept as its two 16-bit halves,   *)
(* so that 2^32 - 2 (the initial value of k) is representable.             *)

Half == 2^16

U32(n) == [hi |-> (n \div Half) % Half, lo |-> n % Half]

U32Add(a, b) ==
    LET lo == a.lo + b.lo
    IN  [hi |-> (a.hi + b.hi + lo \div Half) % Half, lo |-> lo % Half]

\* (uint32_t) -2
U32MinusTwo == [hi |-> Half - 1, lo |-> Half - 2]

\* a < n for a word a and a small natural n (n < 2^16)
U32Less(a, n) == a.hi = 0 /\ a.lo < n

----------------------------------------------------------------------------
(* IPv4 addresses under the mask 255.255.255.0: the 24-bit network number  *)
(* and the host number.                                                    *)

Prefix24(a, b, c) == a * 65536 + b * 256 + c

BackboneBase == Prefix24(192, 168, 0)
WiredBase == Prefix24(172, 16, 0)
\* the wireless cells left in the address space of the wired branches
WirelessBaseNotReset == Prefix24(172, 16, 0)
WirelessBase == Prefix24(10, 0, 0)
Loopback == [net |-> Prefix24(127, 0, 0), host |-> 1]
NoAddr == [net |-> 0, host |-> 0]

\* Ipv4AddressHelper::SetBase (base, "255.255.255.0"): first host is 0.0.0.1
SetBase(net) == [network |-> net, address |-> 1]

\* Ipv4AddressHelper::NewNetwork: next network number, host back to the base
NewNetwork(ip) == [network |-> ip.network + 1, address |-> 1]

\* Ipv4AddressHelper::NewAddress: the address handed out, and the helper after
NewAddress(ip) == [net |-> ip.network, host |-> ip.address]
AfterNewAddress(ip) == [ip EXCEPT !.address = @ + 1]

----------------------------------------------------------------------------
(* Nodes.  Node id n (from 0) is nodeList[n + 1]; device d (from 0) of a   *)
(* node is devices[d + 1] and IPv4 interface f (from 0) is ifaces[f + 1].  *)
(* kind and net record which container created the node.                  *)

NoNode == 0 - 1

NewNode(kind, net) ==
    [kind |-> kind, net |-> net, devices |-> <<>>, ifaces |-> <<>>,
     parent |-> NoNode, mobile |-> FALSE]

\* NodeContainer::Create (n): n new nodes appended to the global NodeList
Create(nl, n, kind, net) == nl \o [x \in 1..n |-> NewNode(kind, net)]

\* ids of the nodes a Create (n) just appended to a list that had before nodes
Created(before, n) == before .. (before + n - 1)

\* <helper>.Install on the nodes ids: one new device of the type on each
InstallDevice(nl, ids, type, ssid) ==
    [x \in 1..Len(nl) |->
        IF (x - 1) \in ids
        THEN [nl[x] EXCEPT !.devices = Append(@, [type |-> type, ssid |-> ssid])]
        ELSE nl[x]]

\* InternetStackHelper::Install: the loopback device and interface 0
InternetInstall(nl, ids) ==
    [x \in 1..Len(nl) |->
        IF (x - 1) \in ids
        THEN [nl[x] EXCEPT
                !.devices = Append(@, [type |-> "loopback", ssid |-> ""]),
                !.ifaces = Append(@, [dev |-> Len(nl[x].devices), addr |-> Loopback])]
        ELSE nl[x]]

\* index (from 0) of the last device installed on node n
LastDevice(nl, n) == Len(nl[n + 1].devices) - 1

\* Ipv4AddressHelper::Assign (container): one new interface with the next
\* address for each device <<node, device>> of the container, in order
RECURSIVE Assign(_, _, _)
Assign(nl, ip, devs) ==
    IF devs = <<>>
    THEN [nl |-> nl, ip |-> ip]
    ELSE LET n == Head(devs)[1]
             d == Head(devs)[2]
             nl2 == [nl EXCEPT ![n + 1].ifaces =
                        Append(@, [dev |-> d, addr |-> NewAddress(ip)])]
         IN  Assign(nl2, AfterNewAddress(ip), Tail(devs))

\* the devices <<n, last device of n>> of the nodes first .. first + n - 1
NewDevices(nl, first, n) == [x \in 1..n |-> <<first + x - 1, LastDevice(nl, first + x - 1)>>]

\* positions taken relative to the first reference pushed, not the last
MobilityInstallFirstReference(nl, ids, stack) ==
    [x \in 1..Len(nl) |->
        IF (x - 1) \in ids
        THEN [nl[x] EXCEPT !.mobile = TRUE,
                           !.parent = IF stack = <<>> THEN NoNode ELSE stack[1]]
        ELSE nl[x]]

\* MobilityHelper::Install: a node positioned relative to the top of the
\* helper's reference stack (hierarchical), or absolutely when it is empty
MobilityInstall(nl, ids, stack) ==
    [x \in 1..Len(nl) |->
        IF (x - 1) \in ids
        THEN [nl[x] EXCEPT !.mobile = TRUE,
                           !.parent = IF stack = <<>> THEN NoNode
                                      ELSE stack[Len(stack)]]
        ELSE nl[x]]

\* NodeList::GetNode (n) for a uint32_t n: the node, or nothing for an index
\* past the end of the list
GetNode(idx) == IF U32Less(idx, Len(nodeList)) THEN idx.lo ELSE NoNode

\* node->GetObject<Ipv4> ()->GetAddress (f, 0).GetLocal ()
GetAddress(n, f) == nodeList[n + 1].ifaces[f + 1].addr

\* "wifi-infra" followed by the decimal digits of i (stringstream << i)
Digit(d) == CASE d = 0 -> "0" [] d = 1 -> "1" [] d = 2 -> "2" [] d = 3 -> "3"
              [] d = 4 -> "4" [] d = 5 -> "5" [] d = 6 -> "6" [] d = 7 -> "7"
              [] d = 8 -> "8" [] d = 9 -> "9"

RECURSIVE Decimal(_)
Decimal(n) == IF n < 10 THEN Digit(n) ELSE Decimal(n \div 10) \o Digit(n % 10)

\* the index left out of the name
SsidWithoutIndex(n) == "wifi-infra"

Ssid(n) == "wifi-infra" \o Decimal(n)

----------------------------------------------------------------------------
(* Applications.  Times are in milliseconds of simulated time.             *)

NoStop == 0 - 1

EcServerStart == 1000
\* a client started before the servers
EcClientStartEarly == EcServerStart - 500
EcClientStart == 2000
EcMaxPacketSize == 1024
EcInterPacketInterval == 10
\* one request more than configured
EcMaxPacketCountPlusOne == 3500 + 1
EcMaxPacketCount == 3500

WpServerStart == 1000
WpServerStop == 10000
WpClientStart == 2000
WpClientStop == 10000
WpMaxPackets == 1
WpInterval == 3000
WpPacketSize == 1024
WpSimulatorStop == 10000

EchoPort == 9

\* UdpEchoServerHelper (9).Install (node), Start (start), Stop (stop)
EchoServer(node, start, stop) ==
    [type |-> "server", node |-> node, peer |-> NoAddr, port |-> EchoPort,
     start |-> start, stop |-> stop, maxPackets |-> 0, interval |-> 0,
     packetSize |-> 0, sent |-> 0, state |-> "idle", at |-> -1,
     firstSent |-> -1, lastSent |-> -1]

\* UdpEchoClientHelper (peer, 9).Install (node) with its three attributes
EchoClient(node, peer, start, stop, maxPackets, interval, size) ==
    [type |-> "client", node |-> node, peer |-> peer, port |-> EchoPort,
     start |-> start, stop |-> stop, maxPackets |-> maxPackets,
     interval |-> interval, packetSize |-> size, sent |-> 0,
     state |-> "idle", at |-> -1, firstSent |-> -1, lastSent |-> -1]

\* <<n, d>> for every device d of type on any node
DevicesOfType(nl, type) ==
    {nd \in (0..(Len(nl) - 1)) \X (0..7) :
        /\ nd[2] < Len(nl[nd[1] + 1].devices)
        /\ nl[nd[1] + 1].devices[nd[2] + 1].type = type}

\* What dereferencing the result of an out-of-range NodeList::GetNode does:
\* the NS_ASSERT of a debug build aborts, an optimized build reads past the
\* vector and faults.
Crash == {"abort", "segv"}

----------------------------------------------------------------------------
(* edgecloud_Stream2.cc *)

\* uint32_t firstNodeIndex = nWifis+k;
EcFirstNodeIndex(nw, kk) == U32Add(U32(nw), kk)

\* the sink index with a fixed offset in place of the counter j
EcLastNodeIndexFixed(nw, p, jj) == U32(nw + nw * p + 4)

\* uint32_t lastNodeIndex = nWifis+nWifis*(p2pNode)+j;
EcLastNodeIndex(nw, p, jj) == U32(nw + nw * p + jj)

\* k += 2 in every iteration
EcNextKEveryTime(ii, kk) == U32Add(kk, U32(2))

\* if(i%2==0) { k+=2; }
EcNextK(ii, kk) == IF ii % 2 = 0 THEN U32Add(kk, U32(2)) ELSE kk

\* one inner iteration that installs the client only
EcApplicationsClientOnly(source, addr, sink) ==
    <<EchoClient(sink, addr, 2000, NoStop, 3500, 10, 1024)>>

\* the applications one inner iteration installs: echoServer.Install
\* (appSource), started at 1.0 s, and echoClient.Install (appSink) towards
\* sourceAddr, started at 2.0 s; neither is given a stop time
EcApplications(source, addr, sink) ==
    <<EchoServer(source, EcServerStart, NoStop),
      EchoClient(sink, addr, EcClientStart, NoStop, EcMaxPacketCount,
                 EcInterPacketInterval, EcMaxPacketSize)>>

\* backboneNodes.Create (nWifis) ... mobility.Install (backboneNodes);
\* ipAddrs.SetBase ("172.16.0.0", ...); i = 0
EC_Backbone ==
    /\ prog = "edgecloud_Stream2" /\ pc = "backbone"
    /\ LET ids == Created(Len(nodeList), nWifis)
           nl1 == Create(nodeList, nWifis, "backbone", NoNode)
           nl2 == InstallDevice(nl1, ids, "csma", "")
           devs == NewDevices(nl2, Len(nodeList), nWifis)
           nl3 == InternetInstall(nl2, ids)
           as == Assign(nl3, SetBase(BackboneBase), devs)
       IN  nodeList' = MobilityInstall(as.nl, ids, mobility)
    /\ ipAddrs' = SetBase(WiredBase)
    /\ i' = 0
    /\ pc' = "wired"
    /\ UNCHANGED <<cfgVars, simVars, mobility, j, k, m, appSource, sourceAddr,
                   appSink, apps, pcap, stopAt>>

\* one iteration of the point-to-point loop
EC_P2pIter ==
    /\ prog = "edgecloud_Stream2" /\ pc = "wired" /\ i < nWifis
    /\ LET new == Len(nodeList)
           nl1 == Create(nodeList, 1, "p2p", i)
           nl2 == InstallDevice(nl1, {i, new}, "p2p", "")
           devs == <<<<i, LastDevice(nl2, i)>>, <<new, LastDevice(nl2, new)>>>>
           nl3 == InternetInstall(nl2, {new})
           as == Assign(nl3, ipAddrs, devs)
           mobilityp2pNetwork == <<i>>
       IN  /\ nodeList' = MobilityInstall(as.nl, {new}, mobilityp2pNetwork)
           /\ ipAddrs' = NewNetwork(as.ip)
    /\ i' = i + 1
    /\ UNCHANGED <<cfgVars, simVars, pc, mobility, j, k, m, appSource,
                   sourceAddr, appSink, apps, pcap, stopAt>>

\* the loop ends: ipAddrs.SetBase ("10.0.0.0", ...); i = 0
EC_P2pDone ==
    /\ prog = "edgecloud_Stream2" /\ pc = "wired" /\ i >= nWifis
    /\ ipAddrs' = SetBase(WirelessBase)
    /\ i' = 0
    /\ pc' = "wireless"
    /\ UNCHANGED <<cfgVars, simVars, nodeList, mobility, j, k, m, appSource,
                   sourceAddr, appSink, apps, pcap, stopAt>>

\* one iteration of the wifi loop: the cell of backbone router i
EC_WifiIter ==
    /\ prog = "edgecloud_Stream2" /\ pc = "wireless" /\ i < nWifis
    /\ LET first == Len(nodeList)
           stas == Created(first, nStas)
           nl1 == Create(nodeList, nStas, "sta", i)
           nl2 == InstallDevice(nl1, stas, "sta", Ssid(i))
           staDevices == NewDevices(nl2, first, nStas)
           nl3 == InstallDevice(nl2, {i}, "ap", Ssid(i))
           apDevices == <<<<i, LastDevice(nl3, i)>>>>
           nl4 == InternetInstall(nl3, stas)
           as == Assign(nl4, ipAddrs, apDevices \o staDevices)
           pushed == Append(mobility, i)
       IN  /\ nodeList' = MobilityInstall(as.nl, stas, pushed)
           /\ ipAddrs' = NewNetwork(as.ip)
           /\ mobility' = pushed
    /\ i' = i + 1
    /\ UNCHANGED <<cfgVars, simVars, pc, j, k, m, appSource, sourceAddr,
                   appSink, apps, pcap, stopAt>>

\* the loop ends: PopulateRoutingTables; j = 0; k = -2; i = 0
EC_WifiDone ==
    /\ prog = "edgecloud_Stream2" /\ pc = "wireless" /\ i >= nWifis
    /\ j' = 0
    /\ k' = U32MinusTwo
    /\ i' = 0
    /\ pc' = "apps"
    /\ UNCHANGED <<cfgVars, simVars, nodeList, ipAddrs, mobility, m, appSource,
                   sourceAddr, appSink, apps, pcap, stopAt>>

\* head of one outer iteration: k, firstNodeIndex, appSource, sourceAddr
EC_AppOuter ==
    /\ prog = "edgecloud_Stream2" /\ pc = "apps" /\ i < nWifis
    /\ k' = EcNextK(i, k)
    /\ LET node == GetNode(EcFirstNodeIndex(nWifis, k'))
       IN  IF node = NoNode
           THEN /\ pc' \in Crash
                /\ UNCHANGED <<appSource, sourceAddr, m>>
           ELSE /\ appSource' = node
                /\ sourceAddr' = GetAddress(node, 1)
                /\ m' = 0
                /\ pc' = "inner"
    /\ UNCHANGED <<cfgVars, simVars, nodeList, ipAddrs, mobility, i, j,
                   appSink, apps, pcap, stopAt>>

\* one inner iteration: appSink, the echo server on appSource, the echo
\* client on appSink, j += 1, pcap on device 0 of appSink
EC_AppInner ==
    /\ prog = "edgecloud_Stream2" /\ pc = "inner" /\ m < nStas
    /\ LET node == GetNode(EcLastNodeIndex(nWifis, p2pNode, j))
       IN  IF node = NoNode
           THEN /\ pc' \in Crash
                /\ UNCHANGED <<appSink, apps, j, pcap, m>>
           ELSE /\ appSink' = node
                /\ apps' = apps \o EcApplications(appSource, sourceAddr, node)
                /\ j' = j + 1
                /\ pcap' = pcap \cup {<<node, 0>>}
                /\ m' = m + 1
                /\ pc' = pc
    /\ UNCHANGED <<cfgVars, simVars, nodeList, ipAddrs, mobility, i, k,
                   appSource, sourceAddr, stopAt>>

\* the inner loop ends: ++i
EC_InnerDone ==
    /\ prog = "edgecloud_Stream2" /\ pc = "inner" /\ m >= nStas
    /\ i' = i + 1
    /\ pc' = "apps"
    /\ UNCHANGED <<cfgVars, simVars, nodeList, ipAddrs, mobility, j, k, m,
                   appSource, sourceAddr, appSink, apps, pcap, stopAt>>

\* the outer loop ends: tracing, then Simulator::Stop () without a time
EC_Tracing ==
    /\ prog = "edgecloud_Stream2" /\ pc = "apps" /\ i >= nWifis
    /\ pcap' = pcap \cup DevicesOfType(nodeList, "p2p")
    /\ stopAt' = NoStop
    /\ pc' = "run"
    /\ UNCHANGED <<cfgVars, simVars, nodeList, ipAddrs, mobility, i, j, k, m,
                   appSource, sourceAddr, appSink, apps>>

----------------------------------------------------------------------------
(* wifi_p2p.cc *)

\* uint32_t firstNodeIndex = backboneNodes+2;
WpFirstNodeIndex(bb) == U32(bb + 2)

\* the sink index without the lanNodes term
WpLastNodeIndexNoLan(bb, ln) == U32(bb + bb)

\* uint32_t lastNodeIndex = backboneNodes+backboneNodes*(lanNodes);
WpLastNodeIndex(bb, ln) == U32(bb + bb * ln)

\* newLanNodes.Create (1);
WpNewLanNodes(ln) == 1

\* backbone.Create (backboneNodes) ... mobility.Install (backbone);
\* ipAddrs.SetBase ("172.16.0.0", ...); i = 0
WP_Backbone ==
    /\ prog = "wifi_p2p" /\ pc = "backbone"
    /\ LET ids == Created(Len(nodeList), backboneNodes)
           nl1 == Create(nodeList, backboneNodes, "backbone", NoNode)
           nl2 == InstallDevice(nl1, ids, "adhoc", "")
           backboneDevices == NewDevices(nl2, Len(nodeList), backboneNodes)
           nl3 == InternetInstall(nl2, ids)
           as == Assign(nl3, SetBase(BackboneBase), backboneDevices)
       IN  nodeList' = MobilityInstall(as.nl, ids, mobility)
    /\ ipAddrs' = SetBase(WiredBase)
    /\ i' = 0
    /\ pc' = "wired"
    /\ UNCHANGED <<cfgVars, simVars, mobility, j, k, m, appSource, sourceAddr,
                   appSink, apps, pcap, stopAt>>

\* one iteration of the LAN loop
WP_LanIter ==
    /\ prog = "wifi_p2p" /\ pc = "wired" /\ i < backboneNodes
    /\ LET first == Len(nodeList)
           n == WpNewLanNodes(lanNodes)
           newLanNodes == Created(first, n)
           nl1 == Create(nodeList, n, "lan", i)
           nl2 == InstallDevice(nl1, {i} \cup newLanNodes, "p2p", "")
           p2pDevices == <<<<i, LastDevice(nl2, i)>>>> \o NewDevices(nl2, first, n)
           nl3 == InternetInstall(nl2, newLanNodes)
           as == Assign(nl3, ipAddrs, p2pDevices)
           mobilityLan == <<i>>
       IN  /\ nodeList' = MobilityInstall(as.nl, newLanNodes, mobilityLan)
           /\ ipAddrs' = NewNetwork(as.ip)
    /\ i' = i + 1
    /\ UNCHANGED <<cfgVars, simVars, pc, mobility, j, k, m, appSource,
                   sourceAddr, appSink, apps, pcap, stopAt>>

\* the loop ends: ipAddrs.SetBase ("10.0.0.0", ...); i = 0
WP_LanDone ==
    /\ prog = "wifi_p2p" /\ pc = "wired" /\ i >= backboneNodes
    /\ ipAddrs' = SetBase(WirelessBase)
    /\ i' = 0
    /\ pc' = "wireless"
    /\ UNCHANGED <<cfgVars, simVars, nodeList, mobility, j, k, m, appSource,
                   sourceAddr, appSink, apps, pcap, stopAt>>

\* one iteration of the infrastructure loop: the cell of backbone router i
WP_InfraIter ==
    /\ prog = "wifi_p2p" /\ pc = "wireless" /\ i < backboneNodes
    /\ LET first == Len(nodeList)
           stas == Created(first, infraNodes)
           nl1 == Create(nodeList, infraNodes, "sta", i)
           nl2 == InstallDevice(nl1, stas, "sta", Ssid(i))
           staDevices == NewDevices(nl2, first, infraNodes)
           nl3 == InstallDevice(nl2, {i}, "ap", Ssid(i))
           apDevices == <<<<i, LastDevice(nl3, i)>>>>
           nl4 == InternetInstall(nl3, stas)
           as == Assign(nl4, ipAddrs, apDevices \o staDevices)
           pushed == Append(mobility, i)
       IN  /\ nodeList' = MobilityInstall(as.nl, stas, pushed)
           /\ ipAddrs' = NewNetwork(as.ip)
           /\ mobility' = pushed
    /\ i' = i + 1
    /\ UNCHANGED <<cfgVars, simVars, pc, j, k, m, appSource, sourceAddr,
                   appSink, apps, pcap, stopAt>>

\* the loop ends: PopulateRoutingTables
WP_InfraDone ==
    /\ prog = "wifi_p2p" /\ pc = "wireless" /\ i >= backboneNodes
    /\ pc' = "apps"
    /\ UNCHANGED <<cfgVars, simVars, nodeList, ipAddrs, mobility, i, j, k, m,
                   appSource, sourceAddr, appSink, apps, pcap, stopAt>>

\* the application section, the tracing section and
\* Simulator::Stop (Seconds (10.0))
WP_Apps ==
    /\ prog = "wifi_p2p" /\ pc = "apps"
    /\ LET source == GetNode(WpFirstNodeIndex(backboneNodes))
           sink == GetNode(WpLastNodeIndex(backboneNodes, lanNodes))
       IN  IF source = NoNode
           THEN /\ pc' \in Crash
                /\ UNCHANGED <<appSource, sourceAddr, appSink, apps, pcap, stopAt>>
           ELSE /\ appSource' = source
                /\ sourceAddr' = GetAddress(source, 1)
                /\ IF sink = NoNode
                   THEN /\ pc' \in Crash
                        /\ UNCHANGED <<appSink, apps, pcap, stopAt>>
                   ELSE /\ appSink' = sink
                        /\ apps' = apps \o
                             <<EchoServer(source, WpServerStart, WpServerStop),
                               EchoClient(sink, sourceAddr', WpClientStart,
                                          WpClientStop, WpMaxPackets,
                                          WpInterval, WpPacketSize)>>
                        /\ pcap' = pcap \cup DevicesOfType(nodeList, "adhoc")
                                        \cup {<<sink, 0>>}
                        /\ stopAt' = WpSimulatorStop
                        /\ pc' = "run"
    /\ UNCHANGED <<cfgVars, simVars, nodeList, ipAddrs, mobility, i, j, k, m>>

----------------------------------------------------------------------------
(* The command line: every flag is a uint32_t the user may set. *)

InitWith(W, S, B, I, L) ==
    /\ prog \in {"edgecloud_Stream2", "wifi_p2p"}
    /\ IF prog = "edgecloud_Stream2"
       THEN /\ nWifis \in 0..W /\ nStas \in 0..S
            /\ backboneNodes = DefaultBackboneNodes
            /\ infraNodes = DefaultInfraNodes
            /\ lanNodes = DefaultLanNodes
       ELSE /\ nWifis = DefaultWifis /\ nStas = DefaultStas
            /\ backboneNodes \in 0..B /\ infraNodes \in 0..I
            /\ lanNodes \in 0..L
    /\ p2pNode = DefaultP2pNode
    /\ pc = "backbone"
    /\ nodeList = <<>>
    /\ ipAddrs = SetBase(0)
    /\ mobility = <<>>
    /\ i = 0 /\ j = 0 /\ k = U32(0) /\ m = 0
    /\ appSource = NoNode /\ sourceAddr = NoAddr /\ appSink = NoNode
    /\ apps = <<>>
    /\ pcap = {}
    /\ stopAt = NoStop
    /\ now = 0
    /\ events = {}
    /\ uid = 0
    /\ exitCode = -1

Init == InitWith(MaxWifis, MaxStas, MaxBackbone, MaxInfra, MaxLan)

Next ==
    \/ EC_Backbone \/ EC_P2pIter \/ EC_P2pDone \/ EC_WifiIter \/ EC_WifiDone
    \/ EC_AppOuter \/ EC_AppInner \/ EC_InnerDone \/ EC_Tracing
    \/ WP_Backbone \/ WP_LanIter \/ WP_LanDone \/ WP_InfraIter \/ WP_InfraDone
    \/ WP_Apps

\* The scripts up to the call of Simulator::Run
Spec == Init /\ [][Next]_vars

----------------------------------------------------------------------------
(* The simulator: Simulator::Run, the event loop and Simulator::Destroy.   *)
(* An event is [time, uid, kind, app]; events run in order of time and,    *)
(* at one time, in the order they were scheduled (uid).                    *)

Event(t, u, kind, a) == [time |-> t, uid |-> u, kind |-> kind, app |-> a]

\* Application::DoInitialize of every installed application: its start event
\* at its start time and, when a stop time was set, its stop event
RECURSIVE StartStopEvents(_, _, _)
StartStopEvents(as, a, u) ==
    IF a > Len(as)
    THEN {}
    ELSE LET start == {Event(as[a].start, u, "start", a)}
             stop == IF as[a].stop = NoStop THEN {}
                     ELSE {Event(as[a].stop, u + 1, "stop", a)}
         IN  start \cup stop \cup StartStopEvents(as, a + 1, u + 2)

\* the event the scheduler runs next
Earlier(e, f) == e.time < f.time \/ (e.time = f.time /\ e.uid < f.uid)
NextEvent == CHOOSE e \in events : \A f \in events \ {e} : Earlier(e, f)

\* the event loop goes on while an event is left that is due before the
\* stop time, if one was given
Runnable == events # {} /\ (stopAt = NoStop \/ NextEvent.time < stopAt)

\* Simulator::Run begins: the applications' events are scheduled
SimRun ==
    /\ pc = "run"
    /\ events' = StartStopEvents(apps, 1, uid)
    /\ uid' = uid + 2 * Len(apps)
    /\ pc' = "running"
    /\ UNCHANGED <<cfgVars, nodeList, ipAddrs, mobility, i, j, k, m, appSource,
                   sourceAddr, appSink, apps, pcap, stopAt, now, exitCode>>

\* one event of the loop: an application starts (a client schedules its
\* first request at once), a client sends a request (and schedules the next
\* one Interval later while fewer than MaxPackets were sent), or an
\* application stops (its pending request is cancelled)
ProcessOneEvent ==
    /\ pc = "running" /\ Runnable
    /\ LET e == NextEvent
           a == e.app
           rest == events \ {e}
       IN  /\ now' = e.time
           /\ CASE e.kind = "start" ->
                     /\ apps' = [apps EXCEPT ![a].state = "started",
                                             ![a].at = e.time]
                     /\ events' = IF apps[a].type = "client"
                                  THEN rest \cup {Event(e.time, uid, "send", a)}
                                  ELSE rest
                [] e.kind = "send" ->
                     /\ apps' = [apps EXCEPT
                                   ![a].sent = @ + 1,
                                   ![a].firstSent = IF @ = -1 THEN e.time ELSE @,
                                   ![a].lastSent = e.time]
                     /\ events' = IF apps[a].sent + 1 < apps[a].maxPackets
                                  THEN rest \cup {Event(e.time + apps[a].interval,
                                                        uid, "send", a)}
                                  ELSE rest
                [] e.kind = "stop" ->
                     /\ apps' = [apps EXCEPT ![a].state = "stopped"]
                     /\ events' = {f \in rest : ~(f.kind = "send" /\ f.app = a)}
           /\ uid' = uid + 1
    /\ UNCHANGED <<cfgVars, nodeList, ipAddrs, mobility, i, j, k, m, appSource,
                   sourceAddr, appSink, pcap, stopAt, pc, exitCode>>

\* Simulator::Run returns: no event is left, or the stop time is reached
RunReturns ==
    /\ pc = "running" /\ ~Runnable
    /\ now' = IF stopAt = NoStop THEN now ELSE stopAt
    /\ pc' = "destroy"
    /\ UNCHANGED <<cfgVars, nodeList, ipAddrs, mobility, i, j, k, m, appSource,
                   sourceAddr, appSink, apps, pcap, stopAt, events, uid, exitCode>>

\* Simulator::Destroy, then main returns
Destroy ==
    /\ pc = "destroy"
    /\ events' = {}
    /\ exitCode' = 0
    /\ pc' = "done"
    /\ UNCHANGED <<cfgVars, nodeList, ipAddrs, mobility, i, j, k, m, appSource,
                   sourceAddr, appSink, apps, pcap, stopAt, now, uid>>

InitRun == InitWith(MaxRunWifis, MaxRunStas, MaxBackbone, MaxInfra, MaxLan)

NextRun == Next \/ SimRun \/ ProcessOneEvent \/ RunReturns \/ Destroy

\* The scripts through Simulator::Run and Simulator::Destroy
SpecRun == InitRun /\ [][NextRun]_vars

----------------------------------------------------------------------------
(* Properties *)

Ec == prog = "edgecloud_Stream2"
Wp == prog = "wifi_p2p"

Servers == {a \in 1..Len(apps) : apps[a].type = "server"}
Clients == {a \in 1..Len(apps) : apps[a].type = "client"}

\* the number of nodes edgecloud_Stream2 creates: the routers, one remote
\* node per router and nStas stations per router
EcNodes == nWifis * (2 + nStas)

\* C1: in edgecloud_Stream2 every index the application loops pass to
\* NodeList::GetNode, nWifis + k in the outer loop and
\* nWifis + nWifis*p2pNode + j in the inner loop, is below the number of
\* nodes created, nWifis*(2 + nStas); so no lookup falls outside the list.
C1_IndicesInBounds ==
    Ec =>
      /\ pc \notin Crash
      /\ pc \in {"apps", "inner"} => Len(nodeList) = EcNodes
      /\ (pc = "apps" /\ i < nWifis) =>
            U32Less(EcFirstNodeIndex(nWifis, EcNextK(i, k)), EcNodes)
      /\ (pc = "inner" /\ m < nStas) =>
            U32Less(EcLastNodeIndex(nWifis, p2pNode, j), EcNodes)
      /\ pc = "inner" => appSource \in 0..(EcNodes - 1)
      /\ (pc = "inner" /\ m > 0) => appSink \in 0..(EcNodes - 1)

\* the last inner iteration of the default run has looked up the last node
C1_Witness ==
    /\ Ec /\ nWifis = DefaultWifis /\ nStas = DefaultStas
    /\ pc = "inner" /\ i = nWifis - 1 /\ m = nStas
    /\ appSink = EcNodes - 1
    /\ appSource = nWifis + 4

\* the number of nodes wifi_p2p creates for given flags
WpNodes(bb, in, ln) == bb + bb * WpNewLanNodes(ln) + bb * in

\* one of the two application indices of wifi_p2p is outside the node set
WpOutside(bb, in, ln) ==
    \/ ~U32Less(WpFirstNodeIndex(bb), WpNodes(bb, in, ln))
    \/ ~U32Less(WpLastNodeIndex(bb, ln), WpNodes(bb, in, ln))

\* C2: wifi_p2p uses its two node indices unchecked.  With the defaults
\* (3, 2, 1) both are inside the created nodes; for each of the three flags
\* some value, the other two at their defaults, puts an index outside; and
\* the script fails at NodeList::GetNode exactly when an index is outside,
\* after building the whole topology without raising any error.
C2_UncheckedIndices ==
    /\ ~WpOutside(DefaultBackboneNodes, DefaultInfraNodes, DefaultLanNodes)
    /\ \E bb \in 0..MaxBackbone : WpOutside(bb, DefaultInfraNodes, DefaultLanNodes)
    /\ \E in \in 0..MaxInfra : WpOutside(DefaultBackboneNodes, in, DefaultLanNodes)
    /\ \E ln \in 0..MaxLan : WpOutside(DefaultBackboneNodes, DefaultInfraNodes, ln)
    /\ Wp =>
         /\ pc \in {"apps", "run"} \cup Crash =>
               /\ Len(nodeList) = WpNodes(backboneNodes, infraNodes, lanNodes)
               /\ Len(nodeList) = backboneNodes * (2 + infraNodes)
         /\ pc \in Crash => WpOutside(backboneNodes, infraNodes, lanNodes)
         /\ pc = "run" => ~WpOutside(backboneNodes, infraNodes, lanNodes)
         /\ (pc = "run" /\ backboneNodes = 3 /\ infraNodes = 2 /\ lanNodes = 1) =>
               appSource = 5 /\ appSink = 6 /\ Len(nodeList) = 12

\* changing lanNodes alone has put the client index outside the node set
C2_Witness ==
    /\ Wp /\ pc \in Crash
    /\ backboneNodes = DefaultBackboneNodes /\ infraNodes = DefaultInfraNodes
    /\ lanNodes = 3
    /\ Len(nodeList) = 12

\* C3: when the application loop of edgecloud_Stream2 has finished, the
\* number of echo server applications installed is nWifis * nStas (24 for
\* the defaults 6 and 4).
C3_ServerCount ==
    (Ec /\ pc = "run") =>
        /\ Cardinality(Servers) = nWifis * nStas
        /\ (nWifis = 6 /\ nStas = 4) => Cardinality(Servers) = 24

\* the default run has installed its 24 servers
C3_Witness ==
    /\ Ec /\ pc = "run" /\ nWifis = DefaultWifis /\ nStas = DefaultStas
    /\ Cardinality(Servers) = 24

\* the IPv4 interfaces <<node, interface>> that were assigned an address
\* (interface 0 of every node is the loopback)
Ifaces ==
    {x \in (0..(Len(nodeList) - 1)) \X (1..15) :
        x[2] < Len(nodeList[x[1] + 1].ifaces)}

IfaceOf(x) == nodeList[x[1] + 1].ifaces[x[2] + 1]
DeviceOf(x) == nodeList[x[1] + 1].devices[IfaceOf(x).dev + 1]

\* the backbone router a node belongs to
Router(n) == IF nodeList[n + 1].kind = "backbone" THEN n ELSE nodeList[n + 1].net

\* the link an interface is on: the backbone, the wired branch of router r
\* or the wireless cell of router r
Link(x) ==
    CASE DeviceOf(x).type \in {"csma", "adhoc"} -> <<"backbone", 0>>
      [] DeviceOf(x).type = "p2p" -> <<"wired", Router(x[1])>>
      [] DeviceOf(x).type \in {"ap", "sta"} -> <<"wireless", Router(x[1])>>

\* the /24 the claim gives to a link
ExpectedNet(l) ==
    CASE l[1] = "backbone" -> Prefix24(192, 168, 0)
      [] l[1] = "wired" -> Prefix24(172, 16, l[2])
      [] l[1] = "wireless" -> Prefix24(10, 0, l[2])

OnLink(l) == {x \in Ifaces : Link(x) = l}

Routers == 0..((IF Ec THEN nWifis ELSE backboneNodes) - 1)

\* C5: in both programs every backbone interface has an address in
\* 192.168.0.0/24, the two interfaces of the i-th wired branch are in
\* 172.16.i.0/24 and the AP and stations of the i-th cell are in 10.0.i.0/24;
\* interfaces of different links never share a /24, and no address is given
\* out twice.
C5_AddressPlan ==
    /\ \A x \in Ifaces : IfaceOf(x).addr.net = ExpectedNet(Link(x))
    /\ \A x, y \in Ifaces :
          /\ Link(x) # Link(y) => IfaceOf(x).addr.net # IfaceOf(y).addr.net
          /\ x # y => IfaceOf(x).addr # IfaceOf(y).addr
    /\ pc \in {"apps", "inner", "run"} =>
          \A r \in Routers :
             /\ Cardinality(OnLink(<<"wired", r>>)) = 2
             /\ Cardinality(OnLink(<<"wireless", r>>)) =
                   1 + (IF Ec THEN nStas ELSE infraNodes)
             /\ \E x \in OnLink(<<"wireless", r>>) :
                   x[1] = r /\ DeviceOf(x).type = "ap"
    /\ pc \in {"apps", "inner", "run"} =>
          Cardinality(OnLink(<<"backbone", 0>>)) = Cardinality(Routers)

\* the default edgecloud_Stream2 topology is built: the last station is in
\* 10.0.5.0/24 and the last remote node in 172.16.5.0/24
C5_Witness ==
    /\ Ec /\ pc = "run" /\ nWifis = DefaultWifis /\ nStas = DefaultStas
    /\ GetAddress(Len(nodeList) - 1, 1).net = Prefix24(10, 0, 5)
    /\ GetAddress(2 * nWifis - 1, 1) = [net |-> Prefix24(172, 16, 5), host |-> 2]

\* the stations of cell r and the node on the wired branch of router r
Stations(r) ==
    {n \in 0..(Len(nodeList) - 1) :
        nodeList[n + 1].kind = "sta" /\ nodeList[n + 1].net = r}
Branch(r) ==
    {n \in 0..(Len(nodeList) - 1) :
        nodeList[n + 1].kind \in {"p2p", "lan"} /\ nodeList[n + 1].net = r}

\* C6: in edgecloud_Stream2 the echo client of every station of cell i
\* targets the remote node on the point-to-point link of backbone router i,
\* which is node nWifis + i.
C6_ClientTargetsOwnRemote ==
    Ec =>
      \A c \in Clients :
         LET cell == nodeList[apps[c].node + 1].net
         IN  /\ apps[c].node \in Stations(cell)
             /\ Branch(cell) = {nWifis + cell}
             /\ apps[c].peer = GetAddress(nWifis + cell, 1)

\* C7: in wifi_p2p the echo server is installed on, and the client targets,
\* the first node created outside the backbone: the LAN node of router 0,
\* whose index is backboneNodes.
C7_SourceIsFirstLanNode ==
    (Wp /\ pc = "run") =>
        /\ appSource = backboneNodes
        /\ appSource \in Branch(0)
        /\ \A a \in Servers : apps[a].node = backboneNodes
        /\ \A c \in Clients : apps[c].peer = GetAddress(backboneNodes, 1)

\* C8: in wifi_p2p the echo client is installed on the last node created,
\* the last station of the last cell, index backboneNodes*(2+infraNodes) - 1,
\* and that node's device 0 is pcap-traced.
C8_SinkIsLastNode ==
    (Wp /\ pc = "run") =>
        /\ appSink = backboneNodes * (2 + infraNodes) - 1
        /\ appSink = Len(nodeList) - 1
        /\ appSink \in Stations(backboneNodes - 1)
        /\ \A c \in Clients : apps[c].node = appSink
        /\ <<appSink, 0>> \in pcap

\* C9: in wifi_p2p the wired LAN of every backbone router has lanNodes - 1
\* hosts besides the router, so the number of nodes created depends on
\* lanNodes.
C9_LanNodesCount ==
    (Wp /\ pc \in {"wireless", "apps", "run"} \cup Crash) =>
        /\ \A r \in Routers : Cardinality(Branch(r)) = lanNodes - 1
        /\ Len(nodeList) =
              backboneNodes + backboneNodes * (lanNodes - 1)
                            + (IF pc = "wireless" THEN i ELSE backboneNodes) * infraNodes

\* the servers a client's requests go to: those on the node that owns the
\* client's remote address
Targets(c) ==
    {s \in Servers :
        \E x \in Ifaces : x[1] = apps[s].node /\ IfaceOf(x).addr = apps[c].peer}

\* C10: every echo server starts at 1.0 s and every echo client at 2.0 s, so
\* whenever a client has sent its first request (at 2.0 s) every server it
\* targets, and there is one, started strictly earlier; in wifi_p2p both
\* applications stop at 10.0 s, after both start times and not after the
\* simulator's stop time of 10.0 s; in edgecloud_Stream2 no application has
\* a stop time and no stop event is ever scheduled.
C10_Schedule ==
    /\ \A s \in Servers : apps[s].start = 1000
    /\ \A c \in Clients : apps[c].start = 2000
    /\ \A a \in 1..Len(apps) : apps[a].state # "idle" => apps[a].at = apps[a].start
    /\ \A e \in events :
          /\ e.kind = "start" => e.time = apps[e.app].start
          /\ e.kind = "stop" => e.time = apps[e.app].stop
          /\ e.kind = "send" => e.time >= apps[e.app].start
    /\ \A c \in Clients :
          apps[c].firstSent # -1 =>
             /\ apps[c].firstSent = 2000
             /\ Targets(c) # {}
             /\ \A s \in Targets(c) :
                   apps[s].at # -1 /\ apps[s].at < apps[c].firstSent
    /\ Wp => /\ \A a \in 1..Len(apps) :
                   /\ apps[a].stop = 10000
                   /\ apps[a].stop > apps[a].start
                   /\ apps[a].stop <= stopAt
             /\ pc \in {"run", "running", "destroy", "done"} => stopAt = 10000
    /\ Ec => /\ \A a \in 1..Len(apps) : apps[a].stop = NoStop
             /\ \A e \in events : e.kind # "stop"
             /\ stopAt = NoStop

\* an edgecloud_Stream2 run is over: all its clients sent their first
\* request at 2.0 s to a server started at 1.0 s
C10_Witness ==
    /\ Ec /\ pc = "done" /\ nWifis = 2 /\ nStas = 1
    /\ Cardinality(Clients) = 2
    /\ \A c \in Clients : apps[c].firstSent = 2000 /\ Targets(c) # {}
    /\ \A s \in Servers : apps[s].at = 1000

\* the requests all clients have sent so far
RECURSIVE SentFrom(_)
SentFrom(a) == IF a > Len(apps) THEN 0 ELSE apps[a].sent + SentFrom(a + 1)
TotalSent == SentFrom(1)

\* the requests of client c that are scheduled and not yet sent
Pending(c) == {e \in events : e.kind = "send" /\ e.app = c}

ClientsOn(n) == {c \in Clients : apps[c].node = n}

\* the nodes the inner loop has used as sink so far
Visited == (2 * nWifis)..(2 * nWifis + j - 1)

\* C12: in edgecloud_Stream2 the counter j is never reset, so it counts the
\* inner iterations (nWifis*nStas after the loops) and the sinks visited are
\* the nodes 2*nWifis, 2*nWifis + 1, ... each exactly once: every station
\* hosts exactly one echo client and has pcap enabled on its device 0, its
\* wifi device, and no backbone router or remote node hosts a client.
C12_OneClientPerStation ==
    (Ec /\ pc \in {"apps", "inner", "run"}) =>
        /\ pc = "apps" => j = i * nStas
        /\ pc = "inner" => j = i * nStas + m
        /\ pc = "run" => j = nWifis * nStas
        /\ Cardinality(Clients) = j
        /\ \A n \in Visited : Cardinality(ClientsOn(n)) = 1 /\ <<n, 0>> \in pcap
        /\ \A n \in 0..(Len(nodeList) - 1) :
              /\ n \notin Visited => ClientsOn(n) = {}
              /\ (n \notin Visited /\ pc # "run") => <<n, 0>> \notin pcap
              /\ nodeList[n + 1].kind # "sta" => ClientsOn(n) = {}
        /\ pc = "run" =>
              \A n \in 0..(Len(nodeList) - 1) :
                 nodeList[n + 1].kind = "sta" =>
                    /\ n \in Visited
                    /\ Cardinality(ClientsOn(n)) = 1
                    /\ <<n, 0>> \in pcap
                    /\ nodeList[n + 1].devices[1].type = "sta"

\* the default run has finished its loops: 24 clients on the nodes 12..35
C12_Witness ==
    /\ Ec /\ pc = "run" /\ nWifis = DefaultWifis /\ nStas = DefaultStas
    /\ j = 24
    /\ {apps[c].node : c \in Clients} = 12..35
    /\ \A n \in 12..35 : <<n, 0>> \in pcap

\* the wifi devices <<node, device>> of the infrastructure cells
WifiDevices ==
    {nd \in (0..(Len(nodeList) - 1)) \X (0..7) :
        /\ nd[2] < Len(nodeList[nd[1] + 1].devices)
        /\ nodeList[nd[1] + 1].devices[nd[2] + 1].type \in {"ap", "sta"}}

Device(nd) == nodeList[nd[1] + 1].devices[nd[2] + 1]

\* the name the claim gives to the cell of router r
CellName(r) ==
    <<"wifi-infra0", "wifi-infra1", "wifi-infra2", "wifi-infra3",
      "wifi-infra4", "wifi-infra5", "wifi-infra6", "wifi-infra7",
      "wifi-infra8", "wifi-infra9", "wifi-infra10", "wifi-infra11",
      "wifi-infra12", "wifi-infra13">>[r + 1]

\* the cells the wireless loop has built so far
CellsBuilt ==
    IF pc \in {"backbone", "wired"} THEN {}
    ELSE IF pc = "wireless" THEN 0..(i - 1) ELSE Routers

\* C13: in both programs the AP on backbone router i and the stations of
\* cell i carry the SSID "wifi-infra" followed by the decimal digits of i,
\* every built cell has exactly one AP, on its router, and the devices of
\* two different cells never carry the same SSID.
C13_UniqueSsid ==
    /\ \A nd \in WifiDevices :
          /\ Device(nd).ssid = CellName(Router(nd[1]))
          /\ Device(nd).type = "ap" => nodeList[nd[1] + 1].kind = "backbone"
          /\ Device(nd).type = "sta" => nodeList[nd[1] + 1].kind = "sta"
    /\ \A nd, ne \in WifiDevices :
          Router(nd[1]) # Router(ne[1]) => Device(nd).ssid # Device(ne).ssid
    /\ \A r \in CellsBuilt :
          /\ Cardinality({nd \in WifiDevices :
                            nd[1] = r /\ Device(nd).type = "ap"}) = 1
          /\ \A n \in Stations(r) :
                \E nd \in WifiDevices : nd[1] = n /\ Device(nd).type = "sta"

\* the default wifi_p2p topology is built: three cells, named wifi-infra0,
\* wifi-infra1 and wifi-infra2
C13_Witness ==
    /\ Wp /\ pc = "run"
    /\ backboneNodes = DefaultBackboneNodes /\ infraNodes = DefaultInfraNodes
    /\ {Device(nd).ssid : nd \in WifiDevices} =
          {"wifi-infra0", "wifi-infra1", "wifi-infra2"}
    /\ Cardinality(WifiDevices) = 9

\* C14: in both programs the stations of cell i are positioned relative to
\* backbone router i, the reference on top of the shared mobility helper's
\* stack when they are installed; a reference is pushed in every iteration
\* and never popped, so after cell i the stack holds the routers 0..i; the
\* remote/LAN node of router i, installed with a helper of its own, is
\* positioned relative to router i too; the routers have no reference.
C14_HierarchicalMobility ==
    /\ \A n \in 0..(Len(nodeList) - 1) :
          /\ nodeList[n + 1].mobile
          /\ nodeList[n + 1].kind = "backbone" => nodeList[n + 1].parent = NoNode
          /\ nodeList[n + 1].kind \in {"sta", "p2p", "lan"} =>
                /\ nodeList[n + 1].parent = nodeList[n + 1].net
                /\ nodeList[nodeList[n + 1].parent + 1].kind = "backbone"
    /\ Len(mobility) = Cardinality(CellsBuilt)
    /\ \A x \in 1..Len(mobility) : mobility[x] = x - 1
    /\ pc = "wireless" => Len(mobility) = i

\* the default edgecloud_Stream2 topology is built: six references were
\* pushed, the last station is relative to router 5 and so is remote node 11
C14_Witness ==
    /\ Ec /\ pc = "run" /\ nWifis = DefaultWifis /\ nStas = DefaultStas
    /\ mobility = <<0, 1, 2, 3, 4, 5>>
    /\ nodeList[Len(nodeList)].parent = 5
    /\ nodeList[11 + 1].kind = "p2p" /\ nodeList[11 + 1].parent = 5

====
